---------------------------- MODULE Spec2Model ----------------------------
(***************************************************************************)
(* Model of the BASED task tracker: the "task" and "task_depends" tables   *)
(* as TaskRepository reads and writes them (BASED/repository/task.py), the *)
(* warning engine get_warnings_list (BASED/views/dashboard/helpers.py) and *)
(* the dashboard aggregation get_dashboard_tasks                           *)
(* (BASED/views/dashboard/views.py).                                       *)
(*                                                                         *)
(* Dates are day numbers.  An Optional[date] is <<>> (None) or <<d>>.      *)
(* Every repository method is one SQL statement, executed atomically by    *)
(* the database; the only suspension point before it is the acquisition of *)
(* a pooled connection, modelled explicitly for add_task_depends.          *)
(***************************************************************************)
EXTENDS Integers, Sequences, FiniteSets, Bags, TLC

\* ------------------------------------------------------------------ bounds
MaxTasks == 2      \* rows of "task" (ids 1..MaxTasks)
MaxEdges == 2      \* rows of "task_depends"
MaxDay   == 4      \* calendar: days 0..MaxDay

\* TIME_RESERVE_COEF is coef / CoefDen; quarters are exact in binary
\* floating point, so days * TIME_RESERVE_COEF is computed without rounding.
CoefDen == 4

VARIABLES
  task,          \* table "task": sequence of rows, row i has id i (serial key)
  task_depends,  \* table "task_depends": bag of <<task_id, depends_task_id>>
  today,         \* date.today()
  coef,          \* numerator of BASED.conf.TIME_RESERVE_COEF (over CoefDen)
  conn,          \* per handler: the add_task_depends request waiting on its connection
  ret            \* the last completed call: [op, args, result]

vars == <<task, task_depends, today, coef, conn, ret>>

None == <<>>
Some(d) == <<d>>

\* The request handlers that may wait on a connection at the same time.
Procs == {"r1", "r2"}
Days == 0..MaxDay
TaskIds == 1..Len(task)

\* ------------------------------------------------------------------ enums
TaskStatusEnum == {"to_do", "in_progress", "done"}

TaskStatusOrder == [to_do |-> 1, in_progress |-> 2, done |-> 3]

\* ------------------------------------------------------------ table "task"
\* The row an insert of a TaskCreate makes: TaskCreate carries no actual
\* dates and no archive flag, so those columns take their defaults.  The
\* columns no warning, relation or progress depends on (title, description,
\* responsible_user_id, created_timestamp) are left out of the rows.
NewTask(id, status, deadline, days_for_completion) ==
  [ id |-> id,
    status |-> status,
    deadline |-> deadline,
    days_for_completion |-> days_for_completion,
    actual_start_date |-> None,
    actual_finish_date |-> None,
    actual_completion_days |-> None,
    is_archived |-> FALSE ]

create(status, deadline, days_for_completion) ==
  /\ Len(task) < MaxTasks
  /\ LET row == NewTask(Len(task) + 1, status, deadline, days_for_completion)
     IN /\ task' = Append(task, row)
        /\ ret' = [op |-> "create", args |-> <<>>, result |-> row]
  /\ UNCHANGED <<task_depends, today, coef, conn>>

\* ORDER BY "deadline": the rows by ascending deadline.  The database fixes
\* no order among rows of equal deadline, so the ordered result is held as
\* the sequence of its deadline groups: element k is the set of rows that
\* carry the k-th smallest deadline.
RECURSIVE OrderByDeadline(_)
OrderByDeadline(rows) ==
  IF rows = {} THEN <<>>
  ELSE LET least == {r \in rows : \A q \in rows : r.deadline <= q.deadline}
       IN <<least>> \o OrderByDeadline(rows \ least)

\* The rows of an ordered result.
Rows(result) == UNION {result[k] : k \in DOMAIN result}

\* update "task" set "status" = $2 where "id" = $1 returning *
SetStatus(row, new_status) == [row EXCEPT !.status = new_status]

update_task_status(task_id, new_status) ==
  /\ IF task_id \in TaskIds
     THEN /\ task' = [task EXCEPT ![task_id] = SetStatus(@, new_status)]
          /\ ret' = [ op |-> "update_task_status", args |-> <<task_id>>,
                      result |-> Some(task'[task_id]) ]
     ELSE /\ task' = task
          /\ ret' = [op |-> "update_task_status", args |-> <<task_id>>, result |-> None]
  /\ UNCHANGED <<task_depends, today, coef, conn>>

\* actual_completion_days as update_task_start_finish_dates computes it
CompletionDays(new_start_date, new_finish_date) ==
  IF new_start_date # None /\ new_finish_date # None
  THEN Some(new_finish_date[1] - new_start_date[1] + 1)
  ELSE None

update_task_start_finish_dates(task_id, new_start_date, new_finish_date) ==
  /\ task' = IF task_id \in TaskIds
             THEN [task EXCEPT ![task_id] =
                     [@ EXCEPT !.actual_start_date = new_start_date,
                               !.actual_finish_date = new_finish_date,
                               !.actual_completion_days =
                                  CompletionDays(new_start_date, new_finish_date)]]
             ELSE task
  /\ ret' = [ op |-> "update_task_start_finish_dates", args |-> <<task_id>>,
              result |-> (task_id \in TaskIds) ]
  /\ UNCHANGED <<task_depends, today, coef, conn>>

update_task_archive_status(task_id, archive_status) ==
  /\ task' = IF task_id \in TaskIds
             THEN [task EXCEPT ![task_id] = [@ EXCEPT !.is_archived = archive_status]]
             ELSE task
  /\ ret' = [ op |-> "update_task_archive_status", args |-> <<task_id>>,
              result |-> (task_id \in TaskIds) ]
  /\ UNCHANGED <<task_depends, today, coef, conn>>

\* select * from "task" where not "is_archived" order by "deadline"
get_tasks_ordered_by_deadline ==
  OrderByDeadline({task[i] : i \in {x \in TaskIds : ~task[x].is_archived}})

\* ---------------------------------------------------- table "task_depends"
Edge(id, depends_id) == <<id, depends_id>>

HasEdge(id, depends_id) == BagIn(Edge(id, depends_id), task_depends)

\* INSERT INTO "task_depends" ... ON CONFLICT (task_id, depends_task_id)
\* DO NOTHING: the table after the statement and the command status that
\* c.execute returns ("INSERT 0 n", n rows inserted).
Insert_WithoutOnConflict(table, row) ==
  [table |-> table (+) SetToBag({row}), status |-> "INSERT 0 1"]

InsertOnConflictDoNothing(table, row) ==
  IF BagIn(row, table)
  THEN [table |-> table, status |-> "INSERT 0 0"]
  ELSE [table |-> table (+) SetToBag({row}), status |-> "INSERT 0 1"]

\* DELETE ... WHERE task_id = $1 AND depends_task_id = $2 RETURNING TRUE:
\* the table without the matching rows, and the rows returned.
DeleteWhere_TaskIdOnly(table, id, depends_id) ==
  LET hit == {e \in BagToSet(table) : e[1] = id}
  IN [ table |-> [e \in BagToSet(table) \ hit |-> table[e]],
       returning |-> hit ]

DeleteWhere(table, id, depends_id) ==
  LET hit == {e \in BagToSet(table) : e[1] = id /\ e[2] = depends_id}
  IN [ table |-> [e \in BagToSet(table) \ hit |-> table[e]],
       returning |-> hit ]

\* add_task_depends, up to "async with self._db.acquire() as c"
add_task_depends_acquire(p, id, depends_id) ==
  /\ conn[p] = None
  /\ conn' = [conn EXCEPT ![p] = Some(Edge(id, depends_id))]
  /\ UNCHANGED <<task, task_depends, today, coef, ret>>

\* add_task_depends, "await c.execute(sql, id_, depends_id)" and return
add_task_depends(p) ==
  /\ conn[p] # None
  /\ LET row == conn[p][1]
     IN /\ \/ BagIn(row, task_depends)
           \/ BagCardinality(task_depends) < MaxEdges
        /\ LET ins == InsertOnConflictDoNothing(task_depends, row)
           IN /\ task_depends' = ins.table
              /\ ret' = [ op |-> "add_task_depends", args |-> row,
                          status |-> ins.status, result |-> None ]
  /\ conn' = [conn EXCEPT ![p] = None]
  /\ UNCHANGED <<task, today, coef>>

del_tasks_depends(id, depends_id) ==
  /\ LET del == DeleteWhere(task_depends, id, depends_id)
     IN /\ task_depends' = del.table
        /\ ret' = [ op |-> "del_tasks_depends",
                    args |-> Edge(id, depends_id),
                    result |-> (del.returning # {}) ]
  /\ UNCHANGED <<task, today, coef, conn>>

DependencyRow(id, type) ==
  [id |-> id, dependency_type |-> type, deadline |-> task[id].deadline]

\* The three SELECTs of get_all_task_dependencies; UNION keeps distinct rows.
SelectDependsOf(task_id) ==
  {DependencyRow(e[1], "depends_of") :
     e \in {x \in BagToSet(task_depends) : x[1] \in TaskIds /\ x[2] = task_id}}

SelectDependentFor(task_id) ==
  {DependencyRow(e[2], "dependent_for") :
     e \in {x \in BagToSet(task_depends) : x[2] \in TaskIds /\ x[1] = task_id}}

SelectSelf_WithoutWhere(task_id) ==
  {DependencyRow(i, "self") : i \in TaskIds}

SelectSelf(task_id) ==
  {DependencyRow(i, "self") : i \in {x \in TaskIds : x = task_id}}

AllTaskDependencies(task_id) ==
  SelectDependsOf(task_id) \cup SelectDependentFor(task_id) \cup SelectSelf(task_id)

get_all_task_dependencies(task_id) ==
  /\ ret' = [ op |-> "get_all_task_dependencies",
               args |-> <<task_id>>,
               result |-> OrderByDeadline(AllTaskDependencies(task_id)) ]
  /\ UNCHANGED <<task, task_depends, today, coef, conn>>

\* --------------------------------------------------------- warning engine
\* date - timedelta(days = x) for x >= 0: date subtraction uses the whole
\* days of the timedelta only, so the date moves back by floor(x) days.
\* Reserve(days) is floor(days * TIME_RESERVE_COEF).
Reserve(days) == (days * coef) \div CoefDen

ToDoWarnings_HardIsStrict(t, current_date) ==
  IF current_date > t.deadline - t.days_for_completion
  THEN <<"start_hard">>
  ELSE IF current_date >= t.deadline - Reserve(t.days_for_completion)
       THEN <<"start_soft">>
       ELSE <<>>

\* case TaskStatusEnum.to_do
ToDoWarnings(t, current_date) ==
  IF current_date >= t.deadline - t.days_for_completion
  THEN <<"start_hard">>
  ELSE IF current_date >= t.deadline - Reserve(t.days_for_completion)
       THEN <<"start_soft">>
       ELSE <<>>

\* case TaskStatusEnum.in_progress, actual_start_date set
InProgressWarnings(t, current_date) ==
  LET days_in_work == current_date - t.actual_start_date[1]
      left == t.days_for_completion - days_in_work
      days_to_deadline == IF left < 0 THEN 0 ELSE left
  IN IF current_date >= t.deadline - days_to_deadline
     THEN <<"finish_hard">>
     ELSE IF current_date >= t.deadline - Reserve(days_to_deadline)
          THEN <<"finish_soft">>
          ELSE <<>>

LateWarning(t, current_date) ==
  IF current_date > t.deadline THEN <<"late_deadline">> ELSE <<>>

\* get_warnings_list(task) on the day current_date: the warnings in the
\* order appended, or the TypeError that "current_date - None" raises for
\* an in_progress task without actual_start_date.
get_warnings_list(t, current_date) ==
  CASE t.status = "to_do" ->
         [ raised |-> "",
           warnings |-> ToDoWarnings(t, current_date) \o LateWarning(t, current_date) ]
    [] t.status = "in_progress" ->
         IF t.actual_start_date = None
         THEN [raised |-> "TypeError", warnings |-> <<>>]
         ELSE [ raised |-> "",
                warnings |-> InProgressWarnings(t, current_date)
                               \o LateWarning(t, current_date) ]
    [] OTHER ->
         [raised |-> "", warnings |-> LateWarning(t, current_date)]

Emits(t, current_date, w) ==
  LET got == get_warnings_list(t, current_date)
  IN \E k \in DOMAIN got.warnings : got.warnings[k] = w

\* The helper applied to a stored task on the current day.
warnings_of_task(task_id) ==
  /\ ret' = [ op |-> "get_warnings_list",
              args |-> <<task[task_id], today>>,
              result |-> get_warnings_list(task[task_id], today) ]
  /\ UNCHANGED <<task, task_depends, today, coef, conn>>

\* date.today() returns the next day.
DayPasses ==
  /\ today < MaxDay
  /\ today' = today + 1
  /\ UNCHANGED <<task, task_depends, coef, conn, ret>>

\* ------------------------------------------------------------- dashboard
get_status_order_number(status) == TaskStatusOrder[status]

\* Every list of rows that an ordered result may be: the deadline groups in
\* order, the rows of a group in any order.
RECURSIVE Arrangements(_)
Arrangements(rows) ==
  IF rows = {} THEN {<<>>}
  ELSE UNION {{<<r>> \o rest : rest \in Arrangements(rows \ {r})} : r \in rows}

RECURSIVE RowLists(_)
RowLists(result) ==
  IF result = <<>> THEN {<<>>}
  ELSE {first \o rest : first \in Arrangements(Head(result)),
                         rest \in RowLists(Tail(result))}

DashboardTask(t) ==
  [id |-> t.id, deadline |-> t.deadline, warnings |-> get_warnings_list(t, today).warnings]

\* The loop of get_dashboard_tasks over tasks: the dict statuses, as the
\* list of its items in insertion order.
RECURSIVE GroupByStatus(_, _)
GroupByStatus(tasks, statuses) ==
  IF tasks = <<>> THEN statuses
  ELSE LET t == Head(tasks)
           at == {k \in DOMAIN statuses : statuses[k].status_name = t.status}
       IN GroupByStatus(
            Tail(tasks),
            IF at # {}
            THEN [k \in DOMAIN statuses |->
                    IF k \in at
                    THEN [statuses[k] EXCEPT !.tasks = Append(@, DashboardTask(t))]
                    ELSE statuses[k]]
            ELSE Append(statuses,
                        [ status_name |-> t.status,
                          order_number |-> get_status_order_number(t.status),
                          tasks |-> <<DashboardTask(t)>> ]))

\* len(statuses[TaskStatusEnum.done])
DoneCount(statuses) ==
  LET at == {k \in DOMAIN statuses : statuses[k].status_name = "done"}
  IN Len(statuses[CHOOSE k \in at : TRUE].tasks)

\* int(done / total * 100); the float quotient and product give the floor
\* of 100 * done / total for every total below 50.
Progress(done, total) == (done * 100) \div total

\* The response of get_dashboard_tasks for the task list tasks, or the
\* exception that ends the handler.
DashboardResponse(tasks) ==
  LET statuses == GroupByStatus(tasks, <<>>)
  IN IF \E k \in DOMAIN tasks : get_warnings_list(tasks[k], today).raised # ""
     THEN [raised |-> "TypeError", progress |-> None, statuses |-> <<>>]
     ELSE IF \A k \in DOMAIN statuses : statuses[k].status_name # "done"
          THEN [raised |-> "KeyError", progress |-> None, statuses |-> <<>>]
          ELSE [ raised |-> "",
                 progress |-> Some(Progress(DoneCount(statuses), Len(tasks))),
                 statuses |-> statuses ]

get_dashboard_tasks ==
  /\ \E tasks \in RowLists(get_tasks_ordered_by_deadline) :
       ret' = [ op |-> "get_dashboard_tasks",
                args |-> <<tasks>>,
                result |-> DashboardResponse(tasks) ]
  /\ UNCHANGED <<task, task_depends, today, coef, conn>>

\* ------------------------------------------------ claims: dependency store
AllPairs == (1..MaxTasks) \X (1..MaxTasks)

NoDuplicateEdges == \A e \in BagToSet(task_depends) : CopiesIn(e, task_depends) = 1

\* An add_task_depends step of handler p whose edge is already stored.
AddOfPresentEdge(p) ==
  /\ conn[p] # None
  /\ conn'[p] = None
  /\ BagIn(conn[p][1], task_depends)

\* C1: add_task_depends(t, d) on an edge already present returns normally
\* (None) and leaves task_depends unchanged, and in every state reached by
\* add_task_depends / del_tasks_depends calls, two handlers adding the same
\* edge concurrently included, no ordered pair is stored more than once.
C1_AddIsIdempotent ==
  /\ []NoDuplicateEdges
  /\ [][\A p \in Procs :
          AddOfPresentEdge(p) =>
            /\ task_depends' = task_depends
            /\ ret'.op = "add_task_depends" /\ ret'.result = None]_vars

\* C1 witness: an add of an edge that was already present has executed (the
\* statement inserted no row) while the other handler still waits to add
\* the same edge.
C1_Witness ==
  /\ ret.op = "add_task_depends"
  /\ ret.status = "INSERT 0 0"
  /\ \E p \in Procs : conn[p] = Some(ret.args)
  /\ CopiesIn(ret.args, task_depends) = 1

\* C2: del_tasks_depends(t, d) returns True exactly when the edge (t, d) was
\* present before the call; if absent the table is unchanged, if present
\* that edge is gone afterwards and every other edge is kept.
C2_DelReportsRemoval ==
  [][\A t, d \in 1..MaxTasks :
       del_tasks_depends(t, d) =>
         /\ ret'.result = HasEdge(t, d)
         /\ ~HasEdge(t, d) => task_depends' = task_depends
         /\ CopiesIn(Edge(t, d), task_depends') = 0
         /\ \A e \in AllPairs \ {Edge(t, d)} :
              CopiesIn(e, task_depends') = CopiesIn(e, task_depends)]_vars

\* C2 witness: a del_tasks_depends call returned True and another edge is
\* still stored.
C2_Witness ==
  /\ ret.op = "del_tasks_depends"
  /\ ret.result = TRUE
  /\ ~BagIn(ret.args, task_depends)
  /\ task_depends # EmptyBag

\* C3: in the result of get_all_task_dependencies(t) every depends_of row
\* is a task u with an edge (t, u), every dependent_for row is a task u
\* with an edge (u, t), and every such edge has its row.
C3_RelationLabelsFollowEdges ==
  ret.op = "get_all_task_dependencies" =>
    LET t == ret.args[1]
        rows == Rows(ret.result)
    IN /\ \A r \in rows :
            /\ r.dependency_type = "depends_of" => HasEdge(t, r.id)
            /\ r.dependency_type = "dependent_for" => HasEdge(r.id, t)
       /\ \A u \in TaskIds :
            /\ HasEdge(t, u) => DependencyRow(u, "depends_of") \in rows
            /\ HasEdge(u, t) => DependencyRow(u, "dependent_for") \in rows

\* C4: for a stored task t, the result of get_all_task_dependencies(t) holds
\* exactly one row of category self, and it is the row of t.
C4_SelfExactlyOnce ==
  (ret.op = "get_all_task_dependencies" /\ ret.args[1] \in TaskIds) =>
    LET selfRows == {r \in Rows(ret.result) : r.dependency_type = "self"}
    IN /\ Cardinality(selfRows) = 1
       /\ \A r \in selfRows : r.id = ret.args[1]

\* C4 witness: the relations of a task with a self-loop and an edge to
\* another task were queried, and the result holds its self row.
C4_Witness ==
  /\ ret.op = "get_all_task_dependencies"
  /\ ret.args[1] \in TaskIds
  /\ HasEdge(ret.args[1], ret.args[1])
  /\ \E u \in TaskIds \ {ret.args[1]} : HasEdge(u, ret.args[1]) \/ HasEdge(ret.args[1], u)
  /\ DependencyRow(ret.args[1], "self") \in Rows(ret.result)

\* ------------------------------------------------- claims: warning engine
Has(warnings, w) == \E k \in DOMAIN warnings : warnings[k] = w

\* C7: for a to_do task with days_for_completion > 0 and a reserve
\* coefficient in (0, 1], on every day get_warnings_list emits start_hard
\* exactly when today >= deadline - days_for_completion; it emits
\* start_soft only when that condition is false and
\* today >= deadline - days_for_completion * coefficient; it never emits
\* both and never emits finish_soft or finish_hard.
C7_ToDoThresholds ==
  (/\ ret.op = "get_warnings_list"
   /\ ret.args[1].status = "to_do"
   /\ ret.args[1].days_for_completion > 0
   /\ coef \in 1..CoefDen) =>
    LET t == ret.args[1]
        day == ret.args[2]
        w == ret.result.warnings
        hard == day >= t.deadline - t.days_for_completion
    IN /\ ret.result.raised = ""
       /\ Has(w, "start_hard") <=> hard
       /\ Has(w, "start_soft") =>
            /\ ~hard
            /\ day * CoefDen >= t.deadline * CoefDen - t.days_for_completion * coef
       /\ ~(Has(w, "start_hard") /\ Has(w, "start_soft"))
       /\ ~Has(w, "finish_soft") /\ ~Has(w, "finish_hard")

\* C7 witness: the engine ran on a to_do task on the very day
\* deadline - days_for_completion, with a coefficient below 1, and emitted
\* start_hard.
C7_Witness ==
  /\ ret.op = "get_warnings_list"
  /\ ret.args[1].status = "to_do"
  /\ coef < CoefDen
  /\ ret.args[2] = ret.args[1].deadline - ret.args[1].days_for_completion
  /\ ret.result.warnings = <<"start_hard">>

\* C9: for a task that stays to_do (in_progress) with
\* days_for_completion > 0 and a reserve coefficient in (0, 1), on the
\* first day get_warnings_list emits start_hard (finish_hard) there is an
\* earlier day on which it emitted start_soft (finish_soft).  Stated for
\* the tasks whose reserve, days_for_completion * coefficient, is at least
\* one whole day.
C9_SoftPrecedesHard ==
  (/\ ret.op = "get_warnings_list"
   /\ ret.args[1] = task[1]
   /\ ret.args[2] = today
   /\ ret.args[1].days_for_completion > 0
   /\ coef \in 1..(CoefDen - 1)
   /\ Reserve(ret.args[1].days_for_completion) >= 1) =>
    \A pair \in {<<"to_do", "start_soft", "start_hard">>,
                  <<"in_progress", "finish_soft", "finish_hard">>} :
      (/\ task[1].status = pair[1]
       /\ Has(ret.result.warnings, pair[3])
       /\ today > 0
       /\ \A d \in 0..(today - 1) : ~Emits(task[1], d, pair[3])) =>
        \E d \in 0..(today - 1) : Emits(task[1], d, pair[2])

\* ------------------------------------------- claims: life cycle, dashboard
StartDateKnown(t) == t.status = "in_progress" => t.actual_start_date # None

CountDone(tasks) == Cardinality({k \in DOMAIN tasks : tasks[k].status = "done"})

\* C5: for a non-empty list of non-archived tasks (here: one on which the
\* warning engine returns for every task), with any number of them in
\* status done, get_dashboard_tasks returns
\* progress = floor(count(done) / count(all) * 100), a value in 0..100.
C5_ProgressIsFloor ==
  (/\ ret.op = "get_dashboard_tasks"
   /\ Len(ret.args[1]) > 0
   /\ \A k \in DOMAIN ret.args[1] : StartDateKnown(ret.args[1][k])) =>
    /\ ret.result.raised = ""
    /\ ret.result.progress = Some((CountDone(ret.args[1]) * 100) \div Len(ret.args[1]))
    /\ ret.result.progress[1] \in 0..100

\* C6: with no non-archived task, get_dashboard_tasks returns progress = 0
\* and no status groups, and raises nothing.
C6_EmptyDashboard ==
  (ret.op = "get_dashboard_tasks" /\ ret.args[1] = <<>>) =>
    /\ ret.result.raised = ""
    /\ ret.result.progress = Some(0)
    /\ ret.result.statuses = <<>>

\* C8: for every stored task, of any status, and the current day,
\* get_warnings_list returns its list, which holds late_deadline exactly
\* when today > deadline, after whatever warning the status branch
\* produced; for a done task no other warning appears.
C8_LateDeadlineIsAdditive ==
  \A i \in TaskIds :
    LET got == get_warnings_list(task[i], today)
        w == got.warnings
    IN /\ got.raised = ""
       /\ Has(w, "late_deadline") <=> today > task[i].deadline
       /\ \A k \in DOMAIN w : w[k] = "late_deadline" => k = Len(w)
       /\ task[i].status = "done" => \A k \in DOMAIN w : w[k] = "late_deadline"

\* C10: a transition of a to_do task to in_progress leaves it with
\* actual_start_date set, so that get_warnings_list returns for it.
C10_InProgressHasStartDate ==
  [][\A i \in TaskIds :
       (task[i].status = "to_do" /\ task'[i].status = "in_progress") =>
         /\ task'[i].actual_start_date # None
         /\ get_warnings_list(task'[i], today').raised = ""]_vars

\* ------------------------------------------------------- specifications
Deadlines == {2, 3}

InitTables ==
  /\ task = <<>>
  /\ task_depends = EmptyBag
  /\ today = 0
  /\ coef = CoefDen
  /\ conn = [p \in Procs |-> None]
  /\ ret = [op |-> "init", args |-> <<>>, result |-> None]

\* The dependency store under concurrent requests.
NextGraph ==
  \/ create("to_do", 2, 1)
  \/ \E p \in Procs, t, d \in TaskIds : add_task_depends_acquire(p, t, d)
  \/ \E p \in Procs : add_task_depends(p)
  \/ \E t, d \in TaskIds : del_tasks_depends(t, d)

SpecGraph == InitTables /\ [][NextGraph]_vars

\* The dependency store and the relations query.
NextRelations ==
  \/ \E dl \in Deadlines : create("to_do", dl, 1)
  \/ \E t, d \in TaskIds : add_task_depends_acquire("r1", t, d)
  \/ add_task_depends("r1")
  \/ \E t, d \in TaskIds : del_tasks_depends(t, d)
  \/ \E t \in 1..MaxTasks : get_all_task_dependencies(t)

SpecRelations == InitTables /\ [][NextRelations]_vars

\* The warning engine applied to one stored task, as the days pass.
Coefs == 1..(CoefDen + 2)

InitWarn ==
  /\ \E status \in TaskStatusEnum, deadline \in Days, dfc \in 1..MaxDay,
        start \in {None} \cup {Some(d) : d \in Days} :
       task = <<[NewTask(1, status, deadline, dfc) EXCEPT !.actual_start_date = start]>>
  /\ task_depends = EmptyBag
  /\ today = 0
  /\ coef \in Coefs
  /\ conn = [p \in Procs |-> None]
  /\ ret = [op |-> "init", args |-> <<>>, result |-> None]

NextWarn ==
  \/ warnings_of_task(1)
  \/ DayPasses

SpecWarn == InitWarn /\ [][NextWarn]_vars

\* The task store through its life cycle, and the dashboard.  Tasks are
\* created in to_do, as the life cycle has it, and reach the other statuses
\* through update_task_status.
InitLife ==
  /\ task = <<>>
  /\ task_depends = EmptyBag
  /\ today \in Days
  /\ coef = CoefDen \div 2
  /\ conn = [p \in Procs |-> None]
  /\ ret = [op |-> "init", args |-> <<>>, result |-> None]

NextLife ==
  \/ create("to_do", 2, 1)
  \/ \E t \in 1..MaxTasks, status \in TaskStatusEnum : update_task_status(t, status)
  \/ \E t \in 1..MaxTasks, start, finish \in {None, Some(today)} :
       update_task_start_finish_dates(t, start, finish)
  \/ \E t \in 1..MaxTasks, b \in BOOLEAN : update_task_archive_status(t, b)
  \/ get_dashboard_tasks

SpecLife == InitLife /\ [][NextLife]_vars

=============================================================================
